---- MODULE Spec2Model ----
(***************************************************************************)
(* Model of the signal engine of the NBA Edge Finder (src/public.py):      *)
(* the price-history tracker with its sticky spike alert (kill switch),    *)
(* the game-state classifier, the tolerance table, the confidence scorer   *)
(* and the recommended-bid calculator.                                     *)
(*                                                                         *)
(* Time is the wall clock of datetime.now() in whole seconds.  Python      *)
(* dicts are functions whose DOMAIN is the set of keys present.            *)
(***************************************************************************)
EXTENDS Integers, Sequences, FiniteSets, TLC

VARIABLES now, session_keys, price_history, spike_alerts, screen, call, ret, frames

vars == <<now, session_keys, price_history, spike_alerts, screen, call, ret, frames>>

(* ----------------------------- bounds ---------------------------------- *)
MaxTime == 120          \* last wall-clock second explored
MaxSamples == 2         \* samples stored over all tickers in the explored runs
MaxCalls == 3           \* calls made by the concurrent callers together
MaxRecords == 3         \* market records in one answer of the exchange
MaxPollSamples == 4     \* samples stored over all tickers in the runs of the app
MaxClock == 151         \* last wall-clock second of the record-only runs

MaxAsk == 100           \* asks are cents in 0..MaxAsk
MinQ1 == 43             \* first-quarter totals explored: 0 and MinQ1..MaxQ1
MaxQ1 == 56
MaxPeriod == 2
MinTotal == 48          \* combined scores of the classified snapshots
MaxTotal == 51

Tickers == {"T1", "T2"}
Callers == {"A", "B"}   \* threads calling into the tracker at the same time
Prices == {60, 67}
TimeSteps == {31, 89}   \* 31 crosses the 30 s window, 31+89 hits the 120 s retention edge
Thresholds == {5, 8}
Windows == {30, 31}

(* ------------------------ program constants ----------------------------- *)
RETENTION_SECONDS == 120
DEFAULT_THRESHOLD_CENTS == 5
DEFAULT_WINDOW_SECONDS == 30

\* Python None (a value outside every price, score and time of the model)
None == -999

(* --------------------------- dict helpers ------------------------------- *)
EmptyDict == [k \in {} |-> None]

DictSet(d, k, v) == [x \in (DOMAIN d) \cup {k} |-> IF x = k THEN v ELSE d[x]]

(* ------------------------ price spike detection ------------------------- *)
\* variant: the purge after the append is missing
record_price_noprune(ph, ticker, price, t_now) ==
    LET h0 == IF ticker \in DOMAIN ph THEN ph[ticker] ELSE <<>>
    IN  DictSet(ph, ticker, Append(h0, <<t_now, price>>))

\* record_price: append (now, price), then keep only samples with t > now - 120
record_price(ph, ticker, price, t_now) ==
    LET h0 == IF ticker \in DOMAIN ph THEN ph[ticker] ELSE <<>>
        h1 == Append(h0, <<t_now, price>>)
        cutoff == t_now - RETENTION_SECONDS
        kept(s) == s[1] > cutoff
    IN  DictSet(ph, ticker, SelectSeq(h1, kept))

\* variant: the flag is assigned the comparison, so a quiet check resets it
check_price_spike_autoclear(ph, alerts, ticker, current_price, threshold_cents, window_seconds, t_now) ==
    IF ticker \notin DOMAIN ph
    THEN [triggered |-> FALSE, delta |-> 0, spike_alerts |-> alerts]
    ELSE LET cutoff == t_now - window_seconds
             isOld(s) == s[1] <= cutoff
             old_prices == SelectSeq(ph[ticker], isOld)
         IN  IF old_prices = <<>>
             THEN [triggered |-> FALSE, delta |-> 0, spike_alerts |-> alerts]
             ELSE LET delta == current_price - old_prices[1][2]
                  IN  [triggered |-> delta >= threshold_cents, delta |-> delta,
                       spike_alerts |-> DictSet(alerts, ticker, delta >= threshold_cents)]

\* variant: the window filter is dropped, every stored sample is a baseline candidate
check_price_spike_nowindow(ph, alerts, ticker, current_price, threshold_cents, window_seconds, t_now) ==
    IF ticker \notin DOMAIN ph
    THEN [triggered |-> FALSE, delta |-> 0, spike_alerts |-> alerts]
    ELSE LET old_prices == ph[ticker]
         IN  IF old_prices = <<>>
             THEN [triggered |-> FALSE, delta |-> 0, spike_alerts |-> alerts]
             ELSE LET delta == current_price - old_prices[1][2]
                  IN  IF delta >= threshold_cents
                      THEN [triggered |-> TRUE, delta |-> delta,
                            spike_alerts |-> DictSet(alerts, ticker, TRUE)]
                      ELSE [triggered |-> FALSE, delta |-> delta, spike_alerts |-> alerts]

\* variant: the baseline is the most recent old sample (old_prices[-1])
check_price_spike_latest(ph, alerts, ticker, current_price, threshold_cents, window_seconds, t_now) ==
    IF ticker \notin DOMAIN ph
    THEN [triggered |-> FALSE, delta |-> 0, spike_alerts |-> alerts]
    ELSE LET cutoff == t_now - window_seconds
             isOld(s) == s[1] <= cutoff
             old_prices == SelectSeq(ph[ticker], isOld)
         IN  IF old_prices = <<>>
             THEN [triggered |-> FALSE, delta |-> 0, spike_alerts |-> alerts]
             ELSE LET delta == current_price - old_prices[Len(old_prices)][2]
                  IN  IF delta >= threshold_cents
                      THEN [triggered |-> TRUE, delta |-> delta,
                            spike_alerts |-> DictSet(alerts, ticker, TRUE)]
                      ELSE [triggered |-> FALSE, delta |-> delta, spike_alerts |-> alerts]

\* check_price_spike: result (triggered, delta) and the alert dict afterwards
check_price_spike(ph, alerts, ticker, current_price, threshold_cents, window_seconds, t_now) ==
    IF ticker \notin DOMAIN ph
    THEN [triggered |-> FALSE, delta |-> 0, spike_alerts |-> alerts]
    ELSE LET cutoff == t_now - window_seconds
             isOld(s) == s[1] <= cutoff
             old_prices == SelectSeq(ph[ticker], isOld)
         IN  IF old_prices = <<>>
             THEN [triggered |-> FALSE, delta |-> 0, spike_alerts |-> alerts]
             ELSE LET oldest_price == old_prices[1][2]
                      delta == current_price - oldest_price
                  IN  IF delta >= threshold_cents
                      THEN [triggered |-> TRUE, delta |-> delta,
                            spike_alerts |-> DictSet(alerts, ticker, TRUE)]
                      ELSE [triggered |-> FALSE, delta |-> delta, spike_alerts |-> alerts]

is_spiked(alerts, ticker) ==
    IF ticker \in DOMAIN alerts THEN alerts[ticker] ELSE FALSE

\* variant: clearing one ticker drops the whole alert dict
clear_spike_all(alerts, ticker) ==
    IF ticker \in DOMAIN alerts THEN EmptyDict ELSE alerts

clear_spike(alerts, ticker) ==
    IF ticker \in DOMAIN alerts THEN [alerts EXCEPT ![ticker] = FALSE] ELSE alerts

\* sidebar: number of alerts that are set
active_spikes(alerts) == Cardinality({k \in DOMAIN alerts : alerts[k]})

RECURSIVE SumLen(_, _)
SumLen(ph, keys) ==
    IF keys = {} THEN 0
    ELSE LET k == CHOOSE x \in keys : TRUE
         IN  Len(ph[k]) + SumLen(ph, keys \ {k})

\* number of samples stored over all tickers (bounds the explored runs only)
TotalSamples(ph) == SumLen(ph, DOMAIN ph)

(* ------------------------ text as character sequences ------------------- *)
\* strings the code inspects (clock, quarter label) are sequences of characters
DigitChars == <<"0", "1", "2", "3", "4", "5", "6", "7", "8", "9">>

IsDigit(c) == \E i \in 1..10 : DigitChars[i] = c

DigitVal(c) == (CHOOSE i \in 1..10 : DigitChars[i] = c) - 1

\* sub in s (Python's substring test)
Contains(s, sub) ==
    \E i \in 1..(Len(s) - Len(sub) + 1) : SubSeq(s, i, i + Len(sub) - 1) = sub

\* positions of a character in s
Positions(s, c) == {i \in 1..Len(s) : s[i] = c}

AllDigits(s) == \A i \in 1..Len(s) : IsDigit(s[i])

RECURSIVE DigitsValue(_)
DigitsValue(s) ==
    IF s = <<>> THEN 0
    ELSE 10 * DigitsValue(SubSeq(s, 1, Len(s) - 1)) + DigitVal(s[Len(s)])

\* The texts below are over digits, ':', '.' and ASCII letters, with at most 15
\* significant digits and values below 2^31.
\* int(text): None stands for ValueError
py_int(s) == IF s # <<>> /\ AllDigits(s) THEN DigitsValue(s) ELSE None

RECURSIVE Pow10(_)
Pow10(n) == IF n = 0 THEN 1 ELSE 10 * Pow10(n - 1)

\* the mantissa of a float literal: digits with at most one '.', a digit on at
\* least one side of it
float_mantissa(s) ==
    LET dots == Positions(s, ".")
    IN  IF Cardinality(dots) > 1 THEN [ok |-> FALSE]
        ELSE LET d == IF dots = {} THEN Len(s) + 1 ELSE CHOOSE i \in dots : TRUE
                 whole == SubSeq(s, 1, d - 1)
                 frac == SubSeq(s, d + 1, Len(s))
             IN  IF AllDigits(whole) /\ AllDigits(frac) /\ Len(whole) + Len(frac) > 0
                 THEN [ok |-> TRUE, digits |-> DigitsValue(whole \o frac),
                       frac_len |-> Len(frac)]
                 ELSE [ok |-> FALSE]

\* the integer part of digits * 10^shift
scaled(digits, shift) ==
    IF digits = 0 THEN 0
    ELSE IF shift >= 0 THEN digits * Pow10(shift)
    ELSE IF shift < -9 THEN 0
    ELSE digits \div Pow10(-shift)

\* the float literal with mantissa m and exponent text expo (has_exp: an 'e' or
\* 'E' was present), truncated by int()
float_truncated(m, has_exp, expo) ==
    IF ~m.ok \/ (has_exp /\ expo = None) THEN None
    ELSE scaled(m.digits, (IF has_exp THEN expo ELSE 0) - m.frac_len)

\* the text split at position e of its exponent mark (Len + 1: there is none)
float_at(s, e) ==
    float_truncated(float_mantissa(SubSeq(s, 1, e - 1)), e <= Len(s),
                    py_int(SubSeq(s, e + 1, Len(s))))

\* int(float(text)): mantissa, then optionally 'e' or 'E' and a decimal exponent;
\* the value is truncated; None stands for ValueError ("inf", "nan" and the other
\* texts with letters included: float() takes the first two, int() then raises)
py_int_float(s) ==
    LET es == Positions(s, "e") \cup Positions(s, "E")
    IN  IF Cardinality(es) > 1 THEN None
        ELSE float_at(s, IF es = {} THEN Len(s) + 1 ELSE CHOOSE i \in es : TRUE)

(* ------------------------ game state classifier ------------------------- *)
\* get_live_game_data found no game
NoLiveData == [none |-> TRUE]

Max(a, b) == IF a >= b THEN a ELSE b
Min(a, b) == IF a <= b THEN a ELSE b

\* line 250: int(mins) * 60 + int(float(secs)), None when a conversion raised
total_secs(mins, secs) == IF mins = None \/ secs = None THEN None ELSE mins * 60 + secs

\* line 249: the clock split at its ':' at position c
clock_split_secs(clock, c) ==
    total_secs(py_int(SubSeq(clock, 1, c - 1)),
               py_int_float(SubSeq(clock, c + 1, Len(clock))))

\* lines 248-250: seconds left on the clock, None when there is no ':' or the
\* split or a conversion raises (the except swallows it)
clock_total_secs(clock) ==
    LET colons == Positions(clock, ":")
    IN  IF Cardinality(colons) # 1 THEN None
        ELSE clock_split_secs(clock, CHOOSE i \in colons : TRUE)

\* line 251: the clock parsed, at most 75 seconds are left and the score is low
lock_window(secs_left, total) == secs_left # None /\ secs_left <= 75 /\ total < 50

\* variant of lock_window: strictly less than 75 seconds
lock_window_strict(secs_left, total) == secs_left # None /\ secs_left < 75 /\ total < 50

\* variant: the lock needs strictly less than 75 seconds
lock_imminent_strict(period, quarter, clock, total) ==
    /\ period = 1
    /\ ~Contains(quarter, <<"E", "n", "d">>)
    /\ lock_window_strict(clock_total_secs(clock), total)

\* lines 245-254: q1_lock_imminent
lock_imminent(period, quarter, clock, total) ==
    /\ period = 1
    /\ ~Contains(quarter, <<"E", "n", "d">>)
    /\ lock_window(clock_total_secs(clock), total)

\* d.get(key, default)
dict_get(d, key, default) == IF key \in DOMAIN d THEN d[key] ELSE default

\* not live_data: None or a dict without keys
no_live_data(live_data) == live_data = NoLiveData \/ DOMAIN live_data = {}

get_game_state(live_data) ==
    IF no_live_data(live_data)
    THEN <<"pregame", FALSE, None>>
    ELSE LET period == dict_get(live_data, "period", 0)
             quarter == dict_get(live_data, "quarter", <<>>)
             clock == dict_get(live_data, "clock", <<>>)
             total == dict_get(live_data, "total", 0)
             q1_lock_imminent == lock_imminent(period, quarter, clock, total)
         IN  IF period = 0 \/ dict_get(live_data, "status", "") = "SCHEDULED"
             THEN <<"pregame", FALSE, None>>
             ELSE IF period = 1 /\ Contains(quarter, <<"E", "n", "d">>)
             THEN <<"post_q1", FALSE, total>>
             ELSE IF period = 1
             THEN <<"live_q1", q1_lock_imminent, total>>
             ELSE IF period > 1
             THEN <<"post_q1", FALSE, total>>
             ELSE <<"pregame", FALSE, None>>

(* ----------------------------- market quotes ---------------------------- *)
\* m.get(key, 0) or 0: a missing or null field reads as 0
get_or_zero(v) == IF v = None THEN 0 ELSE v

\* lines 380-382: the no_ask of the quote
derive_no_ask(yes_ask_raw, no_ask_raw) ==
    LET yes_ask == get_or_zero(yes_ask_raw)
        no_ask == get_or_zero(no_ask_raw)
    IN  IF no_ask = 0 /\ yes_ask > 0 THEN 1 - yes_ask ELSE no_ask

\* ---- texts of the exchange: event tickers are sequences of characters
LowerChars ==
    <<"a", "b", "c", "d", "e", "f", "g", "h", "i", "j", "k", "l", "m",
      "n", "o", "p", "q", "r", "s", "t", "u", "v", "w", "x", "y", "z">>

UpperChars ==
    <<"A", "B", "C", "D", "E", "F", "G", "H", "I", "J", "K", "L", "M",
      "N", "O", "P", "Q", "R", "S", "T", "U", "V", "W", "X", "Y", "Z">>

\* text.upper()
upper(text) ==
    [i \in 1..Len(text) |->
        IF \E k \in 1..26 : LowerChars[k] = text[i]
        THEN UpperChars[CHOOSE k \in 1..26 : LowerChars[k] = text[i]]
        ELSE text[i]]

\* text[a:b] and text[a:] with 0 <= a <= b
Slice(text, a, b) ==
    IF a >= Len(text) \/ a >= b THEN <<>> ELSE SubSeq(text, a + 1, Min(b, Len(text)))

SliceFrom(text, a) == Slice(text, a, Max(a, Len(text)))

\* the str with the characters of text
RECURSIVE Join(_)
Join(text) == IF text = <<>> THEN "" ELSE text[1] \o Join(Tail(text))

\* text.split("-")
RECURSIVE split_dash(_)
split_dash(text) ==
    LET dashes == Positions(text, "-")
    IN  IF dashes = {} THEN <<text>>
        ELSE LET d == CHOOSE i \in dashes : \A j \in dashes : i <= j
             IN  <<SubSeq(text, 1, d - 1)>> \o split_dash(SubSeq(text, d + 1, Len(text)))

\* line 350
months ==
    [JAN |-> "01", FEB |-> "02", MAR |-> "03", APR |-> "04", MAY |-> "05",
     JUN |-> "06", JUL |-> "07", AUG |-> "08", SEP |-> "09", OCT |-> "10",
     NOV |-> "11", DEC |-> "12"]

\* parse_game_date: "20" + YY, the month of the table or "01", the day
parse_game_date(game_code) ==
    LET year == "20" \o Join(Slice(game_code, 0, 2))
        month_str == Join(upper(Slice(game_code, 2, 5)))
        day == Join(Slice(game_code, 5, 7))
    IN  year \o "-"
        \o (IF month_str \in DOMAIN months THEN months[month_str] ELSE "01")
        \o "-" \o day

\* line 200
TICKER_ABBREVS ==
    [ATL |-> "Atlanta", BOS |-> "Boston", BRO |-> "Brooklyn", BKN |-> "Brooklyn",
     CHA |-> "Charlotte", CHI |-> "Chicago", CLE |-> "Cleveland", DAL |-> "Dallas",
     DEN |-> "Denver", DET |-> "Detroit", GSW |-> "Golden State",
     GS |-> "Golden State", HOU |-> "Houston", IND |-> "Indiana",
     LAC |-> "LA Clippers", LAL |-> "LA Lakers", MEM |-> "Memphis", MIA |-> "Miami",
     MIL |-> "Milwaukee", MIN |-> "Minnesota", NOP |-> "New Orleans",
     NO |-> "New Orleans", NYK |-> "New York", NY |-> "New York",
     OKC |-> "Oklahoma City", ORL |-> "Orlando", PHI |-> "Philadelphia",
     PHX |-> "Phoenix", PHO |-> "Phoenix", POR |-> "Portland", SAC |-> "Sacramento",
     SAS |-> "San Antonio", SA |-> "San Antonio", TOR |-> "Toronto", UTA |-> "Utah",
     WAS |-> "Washington"]

\* a team that parse_teams_from_ticker returns as None
NoTeam == "None"

\* TICKER_ABBREVS.get(part.upper(), part)
team_of(part) ==
    IF Join(upper(part)) \in DOMAIN TICKER_ABBREVS
    THEN TICKER_ABBREVS[Join(upper(part))]
    ELSE Join(part)

\* parse_teams_from_ticker
parse_teams_from_ticker(ticker_code) ==
    IF Len(ticker_code) < 12 THEN <<NoTeam, NoTeam>>
    ELSE LET teams_part == SliceFrom(ticker_code, 7)
         IN  <<team_of(Slice(teams_part, 0, 3)), team_of(Slice(teams_part, 3, 6))>>

\* a JSON null where the exchange sends a text
JsonNull == <<"null">>

\* lines 372-383 for one exchange record: the record is skipped, appended as a
\* quote, or event_ticker.split raises on a null
market_quote(m, min_threshold, today) ==
    LET floor_strike == dict_get(m, "floor_strike", 0)
        event_ticker == dict_get(m, "event_ticker", <<>>)
        parts == split_dash(event_ticker)
        game_code == parts[2]
        teams == parse_teams_from_ticker(game_code)
    IN  IF floor_strike = None \/ floor_strike = 0 \/ floor_strike < min_threshold
        THEN [outcome |-> "skip"]
        ELSE IF event_ticker = JsonNull
        THEN [outcome |-> "raise",
              error |-> "'NoneType' object has no attribute 'split'"]
        ELSE IF Len(parts) < 2 THEN [outcome |-> "skip"]
        ELSE IF parse_game_date(game_code) # today THEN [outcome |-> "skip"]
        ELSE [outcome |-> "append",
              quote |-> [ticker |-> dict_get(m, "ticker", ""),
                         event_ticker |-> event_ticker,
                         threshold |-> floor_strike,
                         away_team |-> teams[1],
                         home_team |-> teams[2],
                         yes_ask |-> get_or_zero(dict_get(m, "yes_ask", 0)),
                         no_ask |-> derive_no_ask(dict_get(m, "yes_ask", 0),
                                                  dict_get(m, "no_ask", 0)),
                         volume |-> dict_get(m, "volume", 0)]]

\* lines 371-383: the loop over the records, left at the first one that raises
RECURSIVE collect_markets(_, _, _, _)
collect_markets(records, min_threshold, today, markets) ==
    IF records = <<>> THEN [raised |-> FALSE, markets |-> markets]
    ELSE LET r == market_quote(Head(records), min_threshold, today)
         IN  IF r.outcome = "raise" THEN [raised |-> TRUE, error |-> r.error]
             ELSE collect_markets(Tail(records), min_threshold, today,
                      IF r.outcome = "append" THEN Append(markets, r.quote)
                      ELSE markets)

\* line 384: markets.sort(key=threshold, reverse=True), a stable sort
RECURSIVE sort_by_threshold(_)
sort_by_threshold(markets) ==
    IF markets = <<>> THEN <<>>
    ELSE LET sorted == sort_by_threshold(SubSeq(markets, 1, Len(markets) - 1))
             x == markets[Len(markets)]
             before == {i \in 1..Len(sorted) : sorted[i].threshold >= x.threshold}
             k == Cardinality(before)
         IN  SubSeq(sorted, 1, k) \o <<x>> \o SubSeq(sorted, k + 1, Len(sorted))

\* fetch_extreme_totals: (markets, error, today) for an answer of the exchange
fetch_extreme_totals(response, min_threshold, today) ==
    IF "raises" \in DOMAIN response
    THEN <<<<>>, response.raises, today>>
    ELSE IF response.status_code # 200
    THEN <<<<>>, "API Error: " \o ToString(response.status_code), today>>
    ELSE LET r == collect_markets(dict_get(response, "markets", <<>>), min_threshold,
                                  today, <<>>)
         IN  IF r.raised THEN <<<<>>, r.error, today>>
             ELSE <<sort_by_threshold(r.markets), None, today>>

(* --------------------------- tolerance table ---------------------------- *)
\* variant: the ceilings of the two middle bands are exchanged
get_price_tolerance_swapped(q1_total) ==
    IF q1_total = None THEN <<68, "Pregame">>
    ELSE IF q1_total < 48 THEN <<78, "Q1 < 48">>
    ELSE IF q1_total < 50 THEN <<70, "Q1 48-49">>
    ELSE IF q1_total < 55 THEN <<75, "Q1 50-54">>
    ELSE <<0, "Q1 >= 55">>

get_price_tolerance(q1_total) ==
    IF q1_total = None THEN <<68, "Pregame">>
    ELSE IF q1_total < 48 THEN <<78, "Q1 < 48">>
    ELSE IF q1_total < 50 THEN <<75, "Q1 48-49">>
    ELSE IF q1_total < 55 THEN <<70, "Q1 50-54">>
    ELSE <<0, "Q1 >= 55">>

(* --------------------------- confidence scorer -------------------------- *)
\* variant: the veto starts one point late
q1_veto_late(q1_total) == q1_total # None /\ q1_total > 55

\* line 398: the Q1 veto
q1_veto(q1_total) == q1_total # None /\ q1_total >= 55

\* line 403
q1_points(q1_total) ==
    IF q1_total < 45 THEN 30 ELSE IF q1_total < 48 THEN 27
    ELSE IF q1_total < 50 THEN 22 ELSE 15

\* variant: the watchlist bonus is 25
watchlist_points_25(away, home, watchlist) ==
    IF away \in watchlist \/ home \in watchlist THEN 25 ELSE 0

\* line 406
watchlist_points(away, home, watchlist) ==
    IF away \in watchlist \/ home \in watchlist THEN 20 ELSE 0

\* line 409
price_points(buffer) ==
    IF buffer >= 10 THEN 20 ELSE IF buffer >= 6 THEN 15
    ELSE IF buffer >= 3 THEN 10 ELSE 5

\* line 412
threshold_points(threshold) ==
    IF threshold >= 252 THEN 10 ELSE IF threshold >= 250 THEN 7
    ELSE IF threshold >= 248 THEN 5 ELSE 3

\* line 414
spread_points(spread_est) ==
    IF spread_est >= 7 THEN 8 ELSE IF spread_est >= 5 THEN 5 ELSE 2

\* the verdict texts are kept without their emoji and interpolated numbers; the
\* breakdown holds the contribution of each rule as a number
calculate_confidence(market, q1_total, watchlist, spread_est) ==
    LET away == market.away_team
        home == market.home_team
        threshold == market.threshold
        no_ask == market.no_ask
        max_price == get_price_tolerance(q1_total)[1]
        regime == get_price_tolerance(q1_total)[2]
    IN  IF q1_veto(q1_total)
        THEN [score |-> 0, verdict |-> "Q1 >= 55 - NO TRADE", severity |-> "red",
              breakdown |-> [REJECTED |-> "Q1 too high"]]
        ELSE IF q1_total # None /\ no_ask > max_price
        THEN [score |-> 0, verdict |-> "Price > max for regime", severity |-> "red",
              breakdown |-> [REJECTED |-> "Overpriced"]]
        ELSE IF q1_total = None
        THEN [score |-> 0, verdict |-> "WAIT FOR Q1", severity |-> "gray",
              breakdown |-> EmptyDict]
        ELSE LET q1_pts == q1_points(q1_total)
                 wl_pts == watchlist_points(away, home, watchlist)
                 buffer == max_price - no_ask
                 price_pts == price_points(buffer)
                 score == q1_pts + wl_pts + price_pts
                          + threshold_points(threshold) + spread_points(spread_est)
                 breakdown == [Q1Regime |-> q1_pts, Watchlist |-> wl_pts,
                               PriceBuffer |-> price_pts, Threshold |-> threshold,
                               OTRisk |-> spread_est]
             IN  IF score >= 75
                 THEN [score |-> score, verdict |-> "STRONG BET", severity |-> "green",
                       breakdown |-> breakdown]
                 ELSE IF score >= 60
                 THEN [score |-> score, verdict |-> "GOOD BET", severity |-> "green",
                       breakdown |-> breakdown]
                 ELSE IF score >= 45
                 THEN [score |-> score, verdict |-> "MARGINAL", severity |-> "yellow",
                       breakdown |-> breakdown]
                 ELSE [score |-> score, verdict |-> "WEAK", severity |-> "orange",
                       breakdown |-> breakdown]

(* ------------------------ recommended bid calculator -------------------- *)
\* variant: the ask is compared before the Q1 total
post_q1_bid_askfirst(no_ask, q1_total) ==
    IF no_ask <= 75 THEN <<None, "ASK ACCEPTABLE">>
    ELSE IF q1_total \notin {None, 0} /\ q1_total >= 55 THEN <<None, "NO TRADE">>
    ELSE <<no_ask - 3, "Post-Q1 Value Bid">>

\* variant: the operands of the subtraction are exchanged
post_q1_bid_swapped(no_ask, q1_total) ==
    IF q1_total \notin {None, 0} /\ q1_total >= 55 THEN <<None, "NO TRADE">>
    ELSE IF no_ask <= 75 THEN <<None, "ASK ACCEPTABLE">>
    ELSE <<3 - no_ask, "Post-Q1 Value Bid">>

\* lines 229-235 ("q1_total and ..." is false for None and for 0)
post_q1_bid(no_ask, q1_total) ==
    IF q1_total \notin {None, 0} /\ q1_total >= 55 THEN <<None, "NO TRADE">>
    ELSE IF no_ask <= 75 THEN <<None, "ASK ACCEPTABLE">>
    ELSE <<no_ask - 3, "Post-Q1 Value Bid">>

\* (bid, label); the labels are kept without their emoji, the explanation is left out
calculate_recommended_bid(no_ask, game_state, q1_total, spiked, q1_lock_imminent) ==
    IF spiked THEN <<None, "DO NOT BID">>
    ELSE IF game_state = "pregame" THEN <<Max(no_ask - 10, 60), "Patient Pregame Bid">>
    ELSE IF game_state = "live_q1" /\ q1_lock_imminent
    THEN <<Min(no_ask - 5, 75), "Early Live Bid">>
    ELSE IF game_state = "live_q1" THEN <<Max(no_ask - 8, 60), "Live Q1 Bid">>
    ELSE IF game_state = "post_q1" THEN post_q1_bid(no_ask, q1_total)
    ELSE <<Max(no_ask - 10, 60), "Default Bid">>

(* ------------------------------ state ----------------------------------- *)
\* the keys of st.session_state the tracker uses
SessionKeys == {"price_history", "spike_alerts"}

\* the tracker's part of st.session_state: keys holds the keys that are present,
\* the dict of a missing key reads as the empty dict
Session ==
    [keys |-> session_keys, price_history |-> price_history,
     spike_alerts |-> spike_alerts]

\* lines 113-117, run without interruption: a missing dict is created empty
init_price_history(s) ==
    [keys |-> s.keys \cup SessionKeys,
     price_history |-> IF "price_history" \notin s.keys THEN EmptyDict
                       ELSE s.price_history,
     spike_alerts |-> IF "spike_alerts" \notin s.keys THEN EmptyDict
                      ELSE s.spike_alerts]

\* the clear button of each market on the page: "clear_" (line 513), "clear_y_"
\* (line 534) or "none"; the key of the widget is this prefix and the ticker
NoWidgets == [t \in Tickers |-> "none"]

\* no call is in progress
NoFrames == [c \in Callers |-> [pc |-> "idle", calls |-> 0]]

\* a new session: neither key is in st.session_state, nothing is on the page
Init ==
    /\ now = 0
    /\ session_keys = {}
    /\ price_history = EmptyDict
    /\ spike_alerts = EmptyDict
    /\ screen = NoWidgets
    /\ call = [op |-> "init"]
    /\ ret = [value |-> None]
    /\ frames = NoFrames

\* the wall clock advances between calls
Tick ==
    \E d \in TimeSteps :
        /\ now + d <= MaxTime
        /\ now' = now + d
        /\ call' = [op |-> "tick"]
        /\ ret' = [value |-> None]
        /\ UNCHANGED <<price_history, spike_alerts, frames, session_keys, screen>>

RecordPrice ==
    \E t \in Tickers, p \in Prices :
        \E s \in {init_price_history(Session)} :
            LET ph == record_price(s.price_history, t, p, now)
            IN  /\ TotalSamples(ph) <= MaxSamples
                /\ session_keys' = s.keys
                /\ price_history' = ph
                /\ spike_alerts' = s.spike_alerts
                /\ call' = [op |-> "record_price", ticker |-> t, price |-> p]
                /\ ret' = [value |-> None]
                /\ UNCHANGED <<now, frames, screen>>

CheckPriceSpike ==
    \E t \in Tickers, p \in Prices, th \in Thresholds, w \in Windows :
        \E s \in {init_price_history(Session)} :
            LET r == check_price_spike(s.price_history, s.spike_alerts, t, p, th, w, now)
            IN  /\ session_keys' = s.keys
                /\ price_history' = s.price_history
                /\ spike_alerts' = r.spike_alerts
                /\ call' = [op |-> "check_price_spike", ticker |-> t, price |-> p,
                            threshold |-> th, window |-> w]
                /\ ret' = [triggered |-> r.triggered, delta |-> r.delta]
                /\ UNCHANGED <<now, frames, screen>>

IsSpiked ==
    \E t \in Tickers :
        \E s \in {init_price_history(Session)} :
            /\ session_keys' = s.keys
            /\ price_history' = s.price_history
            /\ spike_alerts' = s.spike_alerts
            /\ call' = [op |-> "is_spiked", ticker |-> t]
            /\ ret' = [value |-> is_spiked(s.spike_alerts, t)]
            /\ UNCHANGED <<now, frames, screen>>

ClearSpike ==
    \E t \in Tickers :
        \E s \in {init_price_history(Session)} :
            /\ session_keys' = s.keys
            /\ price_history' = s.price_history
            /\ spike_alerts' = clear_spike(s.spike_alerts, t)
            /\ call' = [op |-> "clear_spike", ticker |-> t]
            /\ ret' = [value |-> None]
            /\ UNCHANGED <<now, frames, screen>>

\* sidebar button "Clear All Spikes" (lines 472-478), rendered only while an alert
\* is active; st.rerun() ends the run before a market is drawn
ClearAllSpikes ==
    \E s \in {init_price_history(Session)} :
        /\ active_spikes(s.spike_alerts) > 0
        /\ session_keys' = s.keys
        /\ price_history' = s.price_history
        /\ spike_alerts' = EmptyDict
        /\ screen' = NoWidgets
        /\ call' = [op |-> "clear_all_spikes"]
        /\ ret' = [value |-> None]
        /\ UNCHANGED <<now, frames>>

\* one market of a poll cycle: record_price, then check_price_spike with the defaults
PollMarket ==
    \E t \in Tickers, p \in Prices :
        \E s \in {init_price_history(Session)} :
            LET ph == record_price(s.price_history, t, p, now)
                r == check_price_spike(ph, s.spike_alerts, t, p,
                                       DEFAULT_THRESHOLD_CENTS, DEFAULT_WINDOW_SECONDS, now)
            IN  /\ TotalSamples(ph) <= MaxSamples
                /\ session_keys' = s.keys
                /\ price_history' = ph
                /\ spike_alerts' = r.spike_alerts
                /\ call' = [op |-> "poll", ticker |-> t, price |-> p]
                /\ ret' = [triggered |-> r.triggered, delta |-> r.delta]
                /\ UNCHANGED <<now, frames, screen>>

NextTracker == Tick \/ RecordPrice \/ CheckPriceSpike \/ IsSpiked \/ ClearSpike

Next == NextTracker \/ ClearAllSpikes \/ PollMarket

SpecTracker == Init /\ [][NextTracker]_vars

Spec == Init /\ [][Next]_vars

(* =============== the pure functions applied to drawn inputs ============= *)
\* the tracker is idle while a pure function is evaluated
TrackerIdle ==
    /\ now = 0
    /\ session_keys = {}
    /\ price_history = EmptyDict
    /\ spike_alerts = EmptyDict
    /\ screen = NoWidgets
    /\ ret = [value |-> None]
    /\ frames = NoFrames

Asks == 0..MaxAsk
Q1Totals == {None, 0} \cup (MinQ1..MaxQ1)
Teams == {"Boston", "Orlando"}
StrikeThresholds == {247, 248, 250, 252}
SpreadEstimates == {4, 5, 7}
GameStates == {"pregame", "live_q1", "post_q1", "final"}

\* ---- get_price_tolerance
InitTolerance ==
    /\ TrackerIdle
    /\ call \in {[op |-> "input", q1_total |-> q, q1_next |-> q2] :
                    q \in {None} \cup (0..MaxQ1), q2 \in {None} \cup (0..MaxQ1)}

GetPriceTolerance ==
    /\ call.op = "input"
    /\ call' = [call EXCEPT !.op = "get_price_tolerance"]
    /\ ret' = [value |-> get_price_tolerance(call.q1_total),
               next |-> get_price_tolerance(call.q1_next)]
    /\ UNCHANGED <<now, price_history, spike_alerts, frames, session_keys, screen>>

SpecTolerance == InitTolerance /\ [][GetPriceTolerance]_vars

\* ---- calculate_confidence
InitConfidence ==
    /\ TrackerIdle
    /\ call \in {[op |-> "input",
                  market |-> [away_team |-> "Boston", home_team |-> "Orlando",
                              threshold |-> th, no_ask |-> a],
                  q1_total |-> q, watchlist |-> wl, spread_est |-> sp] :
                    th \in StrikeThresholds, a \in Asks, q \in Q1Totals,
                    wl \in SUBSET Teams, sp \in SpreadEstimates}

CalculateConfidence ==
    /\ call.op = "input"
    /\ call' = [call EXCEPT !.op = "calculate_confidence"]
    /\ ret' = calculate_confidence(call.market, call.q1_total, call.watchlist,
                                   call.spread_est)
    /\ UNCHANGED <<now, price_history, spike_alerts, frames, session_keys, screen>>

SpecConfidence == InitConfidence /\ [][CalculateConfidence]_vars

\* ---- calculate_recommended_bid
InitBid ==
    /\ TrackerIdle
    /\ call \in {[op |-> "input", no_ask |-> a, game_state |-> g, q1_total |-> q,
                  is_spiked |-> sp, q1_lock_imminent |-> lk] :
                    a \in Asks, g \in GameStates, q \in Q1Totals,
                    sp \in BOOLEAN, lk \in BOOLEAN}

CalculateRecommendedBid ==
    /\ call.op = "input"
    /\ call' = [call EXCEPT !.op = "calculate_recommended_bid"]
    /\ ret' = [value |-> calculate_recommended_bid(call.no_ask, call.game_state,
                             call.q1_total, call.is_spiked, call.q1_lock_imminent)]
    /\ UNCHANGED <<now, price_history, spike_alerts, frames, session_keys, screen>>

SpecBid == InitBid /\ [][CalculateRecommendedBid]_vars

\* ---- get_game_state
\* a clock as the score feed prints it: minutes, ':', two digits of seconds
ClockText(m, sec) ==
    (IF m >= 10 THEN <<DigitChars[(m \div 10) + 1]>> ELSE <<>>)
    \o <<DigitChars[(m % 10) + 1], ":", DigitChars[(sec \div 10) + 1],
         DigitChars[(sec % 10) + 1]>>

\* clock texts with the seconds they stand for (None: int() or the split raises,
\* or there is no ':')
ClockTable ==
    {<<ClockText(m, sec), 60 * m + sec>> : m \in {0, 1, 2, 12}, sec \in {0, 15, 16, 59}}
    \cup {<<<<"0", ":", "4", "5", ".", "3">>, 45>>,
          <<<<"1", ":", "1", "5", ".", "9">>, 75>>,
          <<<<"0", ":", "1", "e", "1">>, 10>>,
          <<<<"1", ":", "1", "E", "1">>, 70>>,
          <<<<"1", ":", ".", "1", "5", "e", "2">>, 75>>,
          <<<<"1", ":", "1", "6", "0", ".", "e", "0">>, 220>>,
          <<<<"0", ":", "4", "5", "9", "e", "0", "0">>, 459>>,
          <<<<"0", ":", "1", "e">>, None>>,
          <<<<"0", ":", "e", "1">>, None>>,
          <<<<"0", ":", "1", "e", "1", "e", "1">>, None>>,
          <<<<"0", ":", "1", "e", "1", ".", "0">>, None>>,
          <<<<"1", "e", "1", ":", "0", "0">>, None>>,
          <<<<"0", ":", "i", "n", "f">>, None>>,
          <<<<"0", ":", "n", "a", "n">>, None>>,
          <<<<>>, None>>,
          <<<<"4", "5", ".", "3">>, None>>,
          <<<<"1", ":", "0", "2", ":", "0", "3">>, None>>,
          <<<<"x", ":", "1", "5">>, None>>,
          <<<<"1", ":">>, None>>,
          <<<<":", "3", "0">>, None>>,
          <<<<"1", ":", "1", ".", "5", ".", "0">>, None>>}

Clocks == {c[1] : c \in ClockTable}

\* decimal text of a natural number (the f-string of lines 175 and 177)
RECURSIVE IntText(_)
IntText(n) ==
    IF n < 10 THEN <<DigitChars[n + 1]>>
    ELSE IntText(n \div 10) \o <<DigitChars[(n % 10) + 1]>>

\* status type names of the score feed; the last one stands for every other name
StatusTypes ==
    {"STATUS_SCHEDULED", "STATUS_IN_PROGRESS", "STATUS_HALFTIME", "STATUS_END_PERIOD",
     "STATUS_FINAL", "STATUS_POSTPONED"}

\* lines 174-179: the status shown (without its emoji)
status_label(status_type) ==
    IF status_type = "STATUS_SCHEDULED" THEN "SCHEDULED"
    ELSE IF status_type = "STATUS_IN_PROGRESS" THEN "LIVE"
    ELSE IF status_type = "STATUS_HALFTIME" THEN "HALFTIME"
    ELSE IF status_type = "STATUS_END_PERIOD" THEN "LIVE"
    ELSE IF status_type = "STATUS_FINAL" THEN "FINAL"
    ELSE "PENDING"

\* lines 174-179: the quarter label
quarter_label(status_type, period) ==
    IF status_type = "STATUS_IN_PROGRESS" THEN <<"Q">> \o IntText(period)
    ELSE IF status_type = "STATUS_HALFTIME" THEN <<"H", "A", "L", "F">>
    ELSE IF status_type = "STATUS_END_PERIOD"
    THEN <<"E", "n", "d", " ", "Q">> \o IntText(period)
    ELSE IF status_type = "STATUS_FINAL" THEN <<"F", "I", "N", "A", "L">>
    ELSE <<>>

\* line 181: the keys of a game dict that get_game_state reads
game_dict(status_type, period, clock, total) ==
    [period |-> period, quarter |-> quarter_label(status_type, period),
     clock |-> clock, total |-> total, status |-> status_label(status_type)]

\* dicts with keys missing, read through the defaults of live_data.get
PartialDicts ==
    {EmptyDict,
     [period |-> 1],
     [period |-> 1, clock |-> <<"0", ":", "1", "5">>],
     [period |-> 1, clock |-> <<"0", ":", "1", "5">>, total |-> 50],
     [period |-> 1, quarter |-> <<"E", "n", "d", " ", "Q", "1">>, total |-> 48],
     [period |-> 2, total |-> 48],
     [status |-> "LIVE", total |-> 48]}

Snapshots ==
    {NoLiveData} \cup PartialDicts \cup
    {game_dict(st, p, c, tot) :
        st \in StatusTypes, p \in 0..MaxPeriod, c \in Clocks, tot \in MinTotal..MaxTotal}

InitGameState ==
    /\ TrackerIdle
    /\ call \in {[op |-> "input", live_data |-> d] : d \in Snapshots}

GetGameState ==
    /\ call.op = "input"
    /\ call' = [call EXCEPT !.op = "get_game_state"]
    /\ ret' = [value |-> get_game_state(call.live_data)]
    /\ UNCHANGED <<now, price_history, spike_alerts, frames, session_keys, screen>>

SpecGameState == InitGameState /\ [][GetGameState]_vars

\* ---- fetch_extreme_totals
\* the day of the run
Today == "2026-01-01"

TickerToday == <<"K", "X", "N", "B", "A", "T", "O", "T", "A", "L", "-", "2", "6", "J", "A", "N", "0", "1", "B", "O", "S", "O", "R", "L">>

TickerTomorrow == <<"K", "X", "N", "B", "A", "T", "O", "T", "A", "L", "-", "2", "6", "J", "A", "N", "0", "2", "B", "O", "S", "M", "I", "A">>

\* event tickers: today's game, tomorrow's, lower case with an unknown team, a
\* game code without teams, an unknown month with a two-letter team, a third
\* part, no game code, empty, null
EventTickers ==
    {TickerToday, TickerTomorrow,
     <<"K", "X", "N", "B", "A", "T", "O", "T", "A", "L", "-", "2", "6", "j", "a", "n", "0", "1", "u", "t", "a", "x", "y", "z">>,
     <<"K", "X", "N", "B", "A", "T", "O", "T", "A", "L", "-", "2", "6", "J", "A", "N", "0", "1">>,
     <<"K", "X", "N", "B", "A", "T", "O", "T", "A", "L", "-", "2", "6", "X", "X", "X", "0", "1", "B", "O", "S", "N", "Y">>,
     <<"K", "X", "N", "B", "A", "T", "O", "T", "A", "L", "-", "2", "6", "J", "A", "N", "0", "1", "L", "A", "L", "G", "S", "W", "-", "T", "2", "5", "0">>,
     <<"K", "X", "N", "B", "A", "T", "O", "T", "A", "L">>,
     <<>>, JsonNull}

\* one record with every combination of strike and asks
QuoteRecords ==
    [ticker : {"T1"}, event_ticker : {TickerToday, TickerTomorrow},
     floor_strike : {None, 244, 250}, yes_ask : {None} \cup Asks,
     no_ask : {None, 0, 35}, volume : {10}]

\* one record for every event ticker, and one without the optional keys
TickerRecords ==
    {[ticker |-> "T1", event_ticker |-> e, floor_strike |-> 250, yes_ask |-> 30,
      no_ask |-> 70, volume |-> 10] : e \in EventTickers}
    \cup {[floor_strike |-> 250], [event_ticker |-> TickerToday, floor_strike |-> 250]}

\* records of the answers with several markets
ListRecords ==
    {[ticker |-> "T1", event_ticker |-> TickerToday, floor_strike |-> 248,
      yes_ask |-> 30, no_ask |-> 70, volume |-> 10],
     [ticker |-> "T2", event_ticker |-> TickerToday, floor_strike |-> 252,
      yes_ask |-> 30, no_ask |-> 70, volume |-> 10],
     [ticker |-> "T3", event_ticker |-> TickerToday, floor_strike |-> 250,
      yes_ask |-> 40, no_ask |-> 0, volume |-> 10],
     [ticker |-> "T4", event_ticker |-> TickerToday, floor_strike |-> 250,
      yes_ask |-> 30, no_ask |-> 70, volume |-> 10],
     [ticker |-> "T5", event_ticker |-> JsonNull, floor_strike |-> 250,
      yes_ask |-> 30, no_ask |-> 70, volume |-> 10],
     [ticker |-> "T6", event_ticker |-> JsonNull, floor_strike |-> 240,
      yes_ask |-> 30, no_ask |-> 70, volume |-> 10]}

\* answers of the exchange: the request raises, an HTTP error, a body without
\* markets, a list of market records
Responses ==
    {[raises |-> "Read timed out"], [status_code |-> 500], [status_code |-> 503],
     [status_code |-> 200]}
    \cup {[status_code |-> 200, markets |-> <<m>>] : m \in QuoteRecords \cup TickerRecords}
    \cup {[status_code |-> 200, markets |-> l] :
            l \in UNION {[1..n -> ListRecords] : n \in 0..MaxRecords}}

InitQuote ==
    /\ TrackerIdle
    /\ call \in {[op |-> "input", response |-> r, min_threshold |-> 245, today |-> Today] :
                   r \in Responses}

FetchExtremeTotals ==
    /\ call.op = "input"
    /\ call' = [call EXCEPT !.op = "fetch_extreme_totals"]
    /\ ret' = [value |-> fetch_extreme_totals(call.response, call.min_threshold,
                                              call.today)]
    /\ UNCHANGED <<now, price_history, spike_alerts, frames, session_keys, screen>>

SpecQuote == InitQuote /\ [][FetchExtremeTotals]_vars

(* ================== properties of the pure functions ==================== *)
\* one record came back from the exchange and it reports a yes_ask of 1..100
\* and no no_ask
OneRecordWithoutNoAsk ==
    /\ call.op = "fetch_extreme_totals"
    /\ "markets" \in DOMAIN call.response
    /\ Len(call.response.markets) = 1
    /\ LET m == call.response.markets[1]
       IN  /\ dict_get(m, "yes_ask", 0) \in 1..100
           /\ dict_get(m, "no_ask", 0) \in {None, 0}

\* C12 (quote derivation): every quote of fetch_extreme_totals has no_ask within
\* 0..100, and the quote of a record with yes_ask in 1..100 and no no_ask has
\* no_ask = 100 - yes_ask.
C12_QuoteDerivation ==
    call.op = "fetch_extreme_totals"
        => LET markets == ret.value[1]
           IN  /\ \A i \in 1..Len(markets) : markets[i].no_ask \in 0..100
               /\ (OneRecordWithoutNoAsk /\ markets # <<>>)
                    => markets[1].no_ask = 100 - call.response.markets[1].yes_ask

\* C4 (veto precedence): with q1_total not None and >= 55, calculate_confidence
\* returns score 0 and severity red, whatever the watchlist, the ask, the strike
\* threshold and the spread estimate.
C4_VetoPrecedence ==
    (call.op = "calculate_confidence" /\ call.q1_total # None /\ call.q1_total >= 55)
        => (ret.score = 0 /\ ret.severity = "red")

\* C4 witness: a market that would otherwise score (free ask, both teams on the
\* watchlist, strike 252, spread 7) is vetoed at q1_total = 55.
C4_Witness ==
    /\ call.op = "calculate_confidence"
    /\ call.q1_total = 55
    /\ call.market.no_ask = 0
    /\ call.market.threshold = 252
    /\ call.watchlist = Teams
    /\ call.spread_est = 7
    /\ ret.score = 0
    /\ ret.severity = "red"

\* C5 (bounded score): for asks in 0..100 and every q1_total, watchlist, strike
\* threshold and spread estimate, 0 <= score <= 88.
C5_ScoreBounded ==
    call.op = "calculate_confidence" => (0 <= ret.score /\ ret.score <= 88)

\* C5 witness: the bound is attained (30 + 20 + 20 + 10 + 8).
C5_Witness ==
    /\ call.op = "calculate_confidence"
    /\ call.q1_total # None
    /\ ret.score = 88
    /\ ret.severity = "green"

\* the bands of the tolerance table as the claim lists them (hi = None: no upper end)
ToleranceBands ==
    {[lo |-> 0, hi |-> 47, ceiling |-> 78], [lo |-> 48, hi |-> 49, ceiling |-> 75],
     [lo |-> 50, hi |-> 54, ceiling |-> 70], [lo |-> 55, hi |-> None, ceiling |-> 0]}

InBand(q, b) == b.lo <= q /\ (b.hi = None \/ q <= b.hi)

\* C6 (bands partition, ceiling non-increasing): every q >= 0 lies in exactly one
\* band, get_price_tolerance returns that band's ceiling, and for q <= q2 the
\* ceiling of q2 is not above the ceiling of q.
C6_BandsPartitionMonotone ==
    (call.op = "get_price_tolerance" /\ call.q1_total # None)
        => /\ Cardinality({b \in ToleranceBands : InBand(call.q1_total, b)}) = 1
           /\ \A b \in ToleranceBands :
                 InBand(call.q1_total, b) => ret.value[1] = b.ceiling
           /\ (call.q1_next # None /\ call.q1_total <= call.q1_next)
                 => ret.value[1] >= ret.next[1]

\* C6 witness: the two middle bands, 49 -> 75 and 50 -> 70.
C6_Witness ==
    /\ call.op = "get_price_tolerance"
    /\ call.q1_total = 49
    /\ call.q1_next = 50
    /\ ret.value[1] = 75
    /\ ret.next[1] = 70

\* the priority table of the recommendation as the claim lists it
BidTable(a, g, q, sp, lk) ==
    IF sp THEN <<None, "DO NOT BID">>
    ELSE IF g = "pregame" THEN <<Max(a - 10, 60), "Patient Pregame Bid">>
    ELSE IF g = "live_q1" /\ lk THEN <<Min(a - 5, 75), "Early Live Bid">>
    ELSE IF g = "live_q1" THEN <<Max(a - 8, 60), "Live Q1 Bid">>
    ELSE IF g = "post_q1" /\ q # None /\ q >= 55 THEN <<None, "NO TRADE">>
    ELSE IF g = "post_q1" /\ a <= 75 THEN <<None, "ASK ACCEPTABLE">>
    ELSE IF g = "post_q1" THEN <<a - 3, "Post-Q1 Value Bid">>
    ELSE <<Max(a - 10, 60), "Default Bid">>

\* C7 (first-match priority table): calculate_recommended_bid returns, for every
\* input, the row of the table that matches first.
C7_BidPriorityTable ==
    call.op = "calculate_recommended_bid"
        => ret.value = BidTable(call.no_ask, call.game_state, call.q1_total,
                                call.is_spiked, call.q1_lock_imminent)

\* C7 witness: post_q1 with q1_total 56 and ask 65 gives (None, NO TRADE).
C7_Witness ==
    /\ call.op = "calculate_recommended_bid"
    /\ call.game_state = "post_q1"
    /\ call.q1_total = 56
    /\ call.no_ask = 65
    /\ ~call.is_spiked
    /\ ret.value = <<None, "NO TRADE">>

\* C8 (bid monotonicity): with state, q1_total and flags fixed, every higher ask
\* with a non-null bid gets a bid at least as high as the bid of this ask.
C8_BidMonotone ==
    (call.op = "calculate_recommended_bid" /\ ret.value[1] # None)
        => \A a2 \in Asks :
              LET r2 == calculate_recommended_bid(a2, call.game_state, call.q1_total,
                                                   call.is_spiked, call.q1_lock_imminent)
              IN  (call.no_ask <= a2 /\ r2[1] # None) => ret.value[1] <= r2[1]

\* C8 witness: a post_q1 value bid below the top ask (77 -> 74 while 100 -> 97).
C8_Witness ==
    /\ call.op = "calculate_recommended_bid"
    /\ call.game_state = "post_q1"
    /\ call.no_ask = 77
    /\ ret.value[1] = 74
    /\ calculate_recommended_bid(100, call.game_state, call.q1_total,
                                 call.is_spiked, call.q1_lock_imminent)[1] = 97

\* quarter labels carrying the end-of-period marker
EndLabels == {<<"E", "n", "d", " ", "Q">> \o IntText(p) : p \in 0..(MaxPeriod + 1)}

\* seconds the clock text stands for, None when it does not parse
ClockSeconds(clock) == (CHOOSE c \in ClockTable : c[1] = clock)[2]

\* C9 (classification rules in priority order): no snapshot, period 0 or status
\* SCHEDULED give (pregame, False, None); period 1 without the end marker gives
\* live_q1 with lock = (clock parses, <= 75 s left, combined score < 50); period 1
\* with the marker or period > 1 gives (post_q1, False, total); the lock is never
\* set outside live_q1 and an unparseable clock gives lock = False.
C9_GameStateRules ==
    call.op = "get_game_state"
        => LET d == call.live_data
               r == ret.value
           IN  /\ r[1] \in {"pregame", "live_q1", "post_q1"}
               /\ (r[2] => r[1] = "live_q1")
               /\ IF d = NoLiveData \/ d = EmptyDict
                  THEN r = <<"pregame", FALSE, None>>
                  ELSE LET period == dict_get(d, "period", 0)
                           quarter == dict_get(d, "quarter", <<>>)
                           clock == dict_get(d, "clock", <<>>)
                           total == dict_get(d, "total", 0)
                       IN  IF period = 0 \/ dict_get(d, "status", "") = "SCHEDULED"
                           THEN r = <<"pregame", FALSE, None>>
                           ELSE IF period = 1 /\ quarter \notin EndLabels
                           THEN /\ r[1] = "live_q1"
                                /\ r[2] = (/\ ClockSeconds(clock) # None
                                           /\ ClockSeconds(clock) <= 75
                                           /\ total < 50)
                           ELSE r = <<"post_q1", FALSE, total>>

\* C9 witness: period 1, label "Q1", clock 1:15 and 49 points: live_q1 with the
\* lock set.
C9_Witness ==
    /\ call.op = "get_game_state"
    /\ call.live_data = game_dict("STATUS_IN_PROGRESS", 1, <<"1", ":", "1", "5">>, 49)
    /\ call.live_data.quarter = <<"Q", "1">>
    /\ ret.value = <<"live_q1", TRUE, 49>>

(* ========================= the app's poll cycle ========================= *)
\* get_primary_watchlist(): bottom 8 of TEAM_3PT_PCT intersected with bottom 10
\* of TEAM_PACE, by its value
PrimaryWatchlist == {"Orlando", "Utah"}

\* the markets of the day: T1 involves a watchlist team, T2 does not
Markets ==
    [t \in Tickers |->
        IF t = "T1"
        THEN [ticker |-> t, away_team |-> "Boston", home_team |-> "Orlando", threshold |-> 250]
        ELSE [ticker |-> t, away_team |-> "Boston", home_team |-> "Miami", threshold |-> 248]]

\* lines 496-499: the section a market is listed in
section_of(m, no_ask, watchlist) ==
    IF m.away_team \in watchlist \/ m.home_team \in watchlist
    THEN (IF no_ask <= 68 THEN "watchlist_green" ELSE "watchlist_yellow")
    ELSE "non_watchlist"

\* the boxes of render_bid_recommendation for recommendation rec: the order buttons
\* drawn next to it
render_boxes(rec, spiked, show_trading) ==
    IF spiked THEN [rec |-> rec, buttons |-> {}]
    ELSE IF rec[1] # None
    THEN [rec |-> rec, buttons |-> IF show_trading THEN {"bid", "lift"} ELSE {}]
    ELSE IF rec[2] = "ASK ACCEPTABLE"
    THEN [rec |-> rec, buttons |-> IF show_trading THEN {"lift"} ELSE {}]
    ELSE [rec |-> rec, buttons |-> {}]

\* render_bid_recommendation once the game state gs and the spike flag are read
render_for_state(no_ask, gs, spiked, show_trading) ==
    render_boxes(calculate_recommended_bid(no_ask, gs[1], gs[3], spiked, gs[2]),
                 spiked, show_trading)

\* render_bid_recommendation: the recommendation shown and the order buttons drawn
render_bid_recommendation(no_ask, live_data, ticker, alerts, show_trading) ==
    render_for_state(no_ask, get_game_state(live_data), is_spiked(alerts, ticker),
                     show_trading)

\* nothing rendered by render_bid_recommendation (the market is skipped)
NoRecommendation == <<None, "SKIP">>

\* what one market of one run leaves behind: the tracker after record_price (ph1)
\* and check_price_spike (r), and what was drawn
poll_result(ph1, r, rendered, clear_button) ==
    [ph |-> ph1, alerts |-> r.spike_alerts, triggered |-> r.triggered,
     delta |-> r.delta, rec |-> rendered.rec, buttons |-> rendered.buttons,
     clear_button |-> clear_button]

\* variant of poll_checked: the recommendation is rendered from the alerts as they
\* were before the check
poll_checked_render_first(alerts, m, no_ask, live_data, show_trading, ph1, r) ==
    poll_result(ph1, r,
                render_bid_recommendation(no_ask, live_data, m.ticker, alerts,
                                          show_trading),
                FALSE)

\* lines 511-519: a watchlist market that spiked, now or before, shows the skip box
\* with its clear button; every other market shows the recommendation
poll_checked(m, no_ask, live_data, show_trading, ph1, r) ==
    IF /\ section_of(m, no_ask, PrimaryWatchlist) # "non_watchlist"
       /\ (r.triggered \/ is_spiked(r.spike_alerts, m.ticker))
    THEN poll_result(ph1, r, [rec |-> NoRecommendation, buttons |-> {}], TRUE)
    ELSE poll_result(ph1, r,
                     render_bid_recommendation(no_ask, live_data, m.ticker,
                                               r.spike_alerts, show_trading),
                     FALSE)

\* variant of poll_recorded: render first
poll_recorded_render_first(alerts, m, no_ask, live_data, show_trading, t_now, ph1) ==
    poll_checked_render_first(alerts, m, no_ask, live_data, show_trading, ph1,
        check_price_spike(ph1, alerts, m.ticker, no_ask, DEFAULT_THRESHOLD_CENTS,
                          DEFAULT_WINDOW_SECONDS, t_now))

\* line 510: check_price_spike on the tracker ph1 that record_price left
poll_recorded(alerts, m, no_ask, live_data, show_trading, t_now, ph1) ==
    poll_checked(m, no_ask, live_data, show_trading, ph1,
        check_price_spike(ph1, alerts, m.ticker, no_ask, DEFAULT_THRESHOLD_CENTS,
                          DEFAULT_WINDOW_SECONDS, t_now))

\* variant: the recommendation is rendered before the price is recorded and checked
poll_market_render_first(ph, alerts, m, no_ask, live_data, show_trading, t_now) ==
    poll_recorded_render_first(alerts, m, no_ask, live_data, show_trading, t_now,
                               record_price(ph, m.ticker, no_ask, t_now))

\* one market of one script run (lines 505-519, 526-548, 573-591): record_price,
\* check_price_spike, then the skip box with its clear button or the recommendation
poll_market(ph, alerts, m, no_ask, live_data, show_trading, t_now) ==
    poll_recorded(alerts, m, no_ask, live_data, show_trading, t_now,
                  record_price(ph, m.ticker, no_ask, t_now))

PollPrices == {60, 70}

\* snapshots of the game of a polled market: not started, and first quarter over
\* at 56 points
LiveCases ==
    {NoLiveData,
     game_dict("STATUS_IN_PROGRESS", 2, <<"1", "2", ":", "0", "0">>, 56)}

\* the key prefix of the clear button a section draws: line 513 in the green
\* section, line 534 in the yellow one, no button in the other markets
button_key(section) ==
    IF section = "watchlist_green" THEN "clear_"
    ELSE IF section = "watchlist_yellow" THEN "clear_y_"
    ELSE "none"

\* the clear button that market m, quoted at no_ask, has on the page after a run
\* that drew (or did not draw) its skip box
button_drawn(m, no_ask, clear_button) ==
    IF clear_button THEN button_key(section_of(m, no_ask, PrimaryWatchlist))
    ELSE "none"

\* a script run reaches market t: lines 509-519 (and the two other sections)
PollCycle ==
    \E t \in Tickers, p \in PollPrices, live \in LiveCases, trading \in BOOLEAN :
        \E s \in {init_price_history(Session)} :
            \E o \in {poll_market(s.price_history, s.spike_alerts, Markets[t], p, live,
                                 trading, now)} :
                /\ TotalSamples(o.ph) <= MaxPollSamples
                /\ session_keys' = s.keys
                /\ price_history' = o.ph
                /\ spike_alerts' = o.alerts
                /\ screen' = [screen EXCEPT
                                 ![t] = button_drawn(Markets[t], p, o.clear_button)]
                /\ call' = [op |-> "poll_cycle", ticker |-> t, price |-> p,
                            live_data |-> live, show_trading |-> trading]
                /\ ret' = [triggered |-> o.triggered, delta |-> o.delta, rec |-> o.rec,
                           buttons |-> o.buttons, clear_button |-> o.clear_button]
                /\ UNCHANGED <<now, frames>>

\* the user clicks the clear button of market t that is on the page: the script
\* runs again down to the market (lines 509-512: record_price, check_price_spike,
\* the skip box); st.button is true when this run draws the widget with the key
\* that was clicked (line 513 or 534), then clear_spike is called and st.rerun()
\* ends the run. A click whose run draws the button of the other section, or
\* none, is a run like any other (PollCycle).
ClickClearSpike ==
    \E t \in Tickers, p \in PollPrices :
        \E s \in {init_price_history(Session)} :
            \E o \in {poll_market(s.price_history, s.spike_alerts, Markets[t], p,
                                 NoLiveData, FALSE, now)} :
                /\ screen[t] # "none"
                /\ button_drawn(Markets[t], p, o.clear_button) = screen[t]
                /\ TotalSamples(o.ph) <= MaxPollSamples
                /\ session_keys' = s.keys
                /\ price_history' = o.ph
                /\ spike_alerts' = clear_spike(o.alerts, t)
                /\ screen' = [screen EXCEPT ![t] = "none"]
                /\ call' = [op |-> "click_clear_spike", ticker |-> t, price |-> p]
                /\ ret' = [value |-> None]
                /\ UNCHANGED <<now, frames>>

\* a script run that reaches no market: the sidebar calls init_price_history
\* (line 472), then the Refresh button ends the run (lines 483-485), or the
\* exchange reports an error or no market (lines 491-494); no clear button is
\* drawn
RunWithoutMarkets ==
    \E s \in {init_price_history(Session)} :
        /\ session_keys' = s.keys
        /\ price_history' = s.price_history
        /\ spike_alerts' = s.spike_alerts
        /\ screen' = NoWidgets
        /\ call' = [op |-> "run_without_markets"]
        /\ ret' = [value |-> None]
        /\ UNCHANGED <<now, frames>>

NextApp == Tick \/ RunWithoutMarkets \/ PollCycle \/ ClickClearSpike \/ ClearAllSpikes

SpecApp == Init /\ [][NextApp]_vars

(* ============ two callers inside the tracker at the same time ========== *)
\* The code takes no lock: a thread can be preempted between any two of the
\* steps below.  A caller makes one call at a time.
\* the callers work on the same ticker
SharedTickers == {"T1"}

SetFrame(c, f) == [frames EXCEPT ![c] = f]

RECURSIVE SumCalls(_)
SumCalls(cs) ==
    IF cs = {} THEN 0
    ELSE LET c == CHOOSE x \in cs : TRUE
         IN  frames[c].calls + SumCalls(cs \ {c})

\* caller c is free to make another call (bounds the explored runs only)
CanCall(c) == frames[c].pc = "idle" /\ SumCalls(Callers) < MaxCalls

\* the call of caller c has returned
Return(c) ==
    /\ frames[c].pc = "done"
    /\ frames' = SetFrame(c, [pc |-> "idle", calls |-> frames[c].calls])
    /\ UNCHANGED <<now, price_history, spike_alerts, call, ret, session_keys, screen>>

\* the line a call goes on with when init_price_history has returned
after_init(op) ==
    IF op = "record_price" THEN "line121"
    ELSE IF op = "check_price_spike" THEN "line130"
    ELSE IF op = "clear_spike" THEN "line150"
    ELSE "line473"

\* the frame of a caller when the dict object under 'spike_alerts' is replaced
\* (lines 117 and 477): an iterator made at line 473 keeps the old object, which
\* nobody can change any more
detach(f) ==
    IF f.pc = "line473_next" /\ ~f.detached
    THEN [f EXCEPT !.detached = TRUE, !.it_dict = spike_alerts]
    ELSE f

\* the frames after caller c has replaced the dict under 'spike_alerts' and goes
\* on at line pc
ReplaceAlerts(c, pc) ==
    [x \in Callers |-> IF x = c THEN [frames[c] EXCEPT !.pc = pc]
                       ELSE detach(frames[x])]

\* line 114: if 'price_history' not in st.session_state
Iph114(c) ==
    /\ frames[c].pc = "line114"
    /\ frames' = SetFrame(c, [frames[c] EXCEPT !.pc =
                     IF "price_history" \notin session_keys
                     THEN "line115" ELSE "line116"])
    /\ UNCHANGED <<now, price_history, spike_alerts, call, ret, session_keys, screen>>

\* line 115: st.session_state.price_history = {}
Iph115(c) ==
    /\ frames[c].pc = "line115"
    /\ session_keys' = session_keys \cup {"price_history"}
    /\ price_history' = EmptyDict
    /\ frames' = SetFrame(c, [frames[c] EXCEPT !.pc = "line116"])
    /\ UNCHANGED <<now, spike_alerts, call, ret, screen>>

\* line 116: if 'spike_alerts' not in st.session_state
Iph116(c) ==
    /\ frames[c].pc = "line116"
    /\ frames' = SetFrame(c, [frames[c] EXCEPT !.pc =
                     IF "spike_alerts" \notin session_keys
                     THEN "line117" ELSE after_init(frames[c].op)])
    /\ UNCHANGED <<now, price_history, spike_alerts, call, ret, session_keys, screen>>

\* line 117: st.session_state.spike_alerts = {}
Iph117(c) ==
    /\ frames[c].pc = "line117"
    /\ session_keys' = session_keys \cup {"spike_alerts"}
    /\ spike_alerts' = EmptyDict
    /\ frames' = ReplaceAlerts(c, after_init(frames[c].op))
    /\ UNCHANGED <<now, price_history, call, ret, screen>>

\* lines 119-120: record_price entered, init_price_history called
RpEnter(c) ==
    \E t \in SharedTickers, p \in Prices :
        /\ CanCall(c)
        /\ frames' = SetFrame(c, [pc |-> "line114", calls |-> frames[c].calls + 1,
                                  op |-> "record_price", ticker |-> t, price |-> p,
                                  t_now |-> None, filtered |-> <<>>,
                                  error |-> "none"])
        /\ UNCHANGED <<now, price_history, spike_alerts, call, ret, session_keys, screen>>

\* line 121: now = datetime.now()
Rp121(c) ==
    /\ frames[c].pc = "line121"
    /\ frames' = SetFrame(c, [frames[c] EXCEPT !.pc = "line122", !.t_now = now])
    /\ UNCHANGED <<now, price_history, spike_alerts, call, ret, session_keys, screen>>

\* line 122: if ticker not in price_history
Rp122(c) ==
    /\ frames[c].pc = "line122"
    /\ frames' = SetFrame(c, [frames[c] EXCEPT !.pc =
                     IF frames[c].ticker \notin DOMAIN price_history
                     THEN "line123" ELSE "line124"])
    /\ UNCHANGED <<now, price_history, spike_alerts, call, ret, session_keys, screen>>

\* line 123: price_history[ticker] = []
Rp123(c) ==
    /\ frames[c].pc = "line123"
    /\ price_history' = DictSet(price_history, frames[c].ticker, <<>>)
    /\ frames' = SetFrame(c, [frames[c] EXCEPT !.pc = "line124"])
    /\ UNCHANGED <<now, spike_alerts, call, ret, session_keys, screen>>

\* line 124: append to the list the dict holds; KeyError when the dict was
\* replaced (line 115 of another caller) since line 122
Rp124(c) ==
    /\ frames[c].pc = "line124"
    /\ IF frames[c].ticker \in DOMAIN price_history
       THEN /\ price_history' = [price_history EXCEPT ![frames[c].ticker] =
                                    Append(@, <<frames[c].t_now, frames[c].price>>)]
            /\ frames' = SetFrame(c, [frames[c] EXCEPT !.pc = "line126_build"])
       ELSE /\ price_history' = price_history
            /\ frames' = SetFrame(c, [frames[c] EXCEPT !.pc = "done",
                                                      !.error = "KeyError"])
    /\ UNCHANGED <<now, spike_alerts, call, ret, session_keys, screen>>

\* line 126, right-hand side: the filtered copy is built (KeyError as at line 124)
Rp126Build(c) ==
    /\ frames[c].pc = "line126_build"
    /\ LET cutoff == frames[c].t_now - RETENTION_SECONDS
           kept(s) == s[1] > cutoff
       IN  frames' = SetFrame(c,
              IF frames[c].ticker \in DOMAIN price_history
              THEN [frames[c] EXCEPT
                       !.pc = "line126_store",
                       !.filtered = SelectSeq(price_history[frames[c].ticker], kept)]
              ELSE [frames[c] EXCEPT !.pc = "done", !.error = "KeyError"])
    /\ UNCHANGED <<now, price_history, spike_alerts, call, ret, session_keys, screen>>

\* line 126, assignment: the copy is stored in the dict under the ticker
Rp126Store(c) ==
    /\ frames[c].pc = "line126_store"
    /\ price_history' = DictSet(price_history, frames[c].ticker, frames[c].filtered)
    /\ frames' = SetFrame(c, [frames[c] EXCEPT !.pc = "done"])
    /\ UNCHANGED <<now, spike_alerts, call, ret, session_keys, screen>>

\* lines 128-129: check_price_spike entered, init_price_history called
CpsEnter(c) ==
    \E t \in SharedTickers, p \in Prices :
        /\ CanCall(c)
        /\ frames' = SetFrame(c, [pc |-> "line114", calls |-> frames[c].calls + 1,
                                  op |-> "check_price_spike", ticker |-> t, price |-> p,
                                  t_now |-> None, old_prices |-> <<>>,
                                  error |-> "none"])
        /\ UNCHANGED <<now, price_history, spike_alerts, call, ret, session_keys, screen>>

\* lines 130-131: if ticker not in price_history: return False, 0
Cps130(c) ==
    /\ frames[c].pc = "line130"
    /\ frames' = SetFrame(c, [frames[c] EXCEPT !.pc =
                     IF frames[c].ticker \notin DOMAIN price_history
                     THEN "done" ELSE "line132"])
    /\ UNCHANGED <<now, price_history, spike_alerts, call, ret, session_keys, screen>>

\* line 132: now = datetime.now()
Cps132(c) ==
    /\ frames[c].pc = "line132"
    /\ frames' = SetFrame(c, [frames[c] EXCEPT !.pc = "line134", !.t_now = now])
    /\ UNCHANGED <<now, price_history, spike_alerts, call, ret, session_keys, screen>>

\* lines 133-134: the list is read, old_prices is built (KeyError when the dict
\* was replaced since line 130)
Cps134(c) ==
    /\ frames[c].pc = "line134"
    /\ LET cutoff == frames[c].t_now - DEFAULT_WINDOW_SECONDS
           old(s) == s[1] <= cutoff
       IN  frames' = SetFrame(c,
              IF frames[c].ticker \in DOMAIN price_history
              THEN [frames[c] EXCEPT
                       !.pc = "line135",
                       !.old_prices = SelectSeq(price_history[frames[c].ticker], old)]
              ELSE [frames[c] EXCEPT !.pc = "done", !.error = "KeyError"])
    /\ UNCHANGED <<now, price_history, spike_alerts, call, ret, session_keys, screen>>

\* lines 135-142: the delta against the first old sample, the flag is stored
Cps135(c) ==
    /\ frames[c].pc = "line135"
    /\ spike_alerts' =
          IF /\ frames[c].old_prices # <<>>
             /\ frames[c].price - frames[c].old_prices[1][2] >= DEFAULT_THRESHOLD_CENTS
          THEN DictSet(spike_alerts, frames[c].ticker, TRUE)
          ELSE spike_alerts
    /\ frames' = SetFrame(c, [frames[c] EXCEPT !.pc = "done"])
    /\ UNCHANGED <<now, price_history, call, ret, session_keys, screen>>

\* lines 148-149: clear_spike entered, init_price_history called
CsEnter(c) ==
    \E t \in SharedTickers :
        /\ CanCall(c)
        /\ frames' = SetFrame(c, [pc |-> "line114", calls |-> frames[c].calls + 1,
                                  op |-> "clear_spike", ticker |-> t])
        /\ UNCHANGED <<now, price_history, spike_alerts, call, ret, session_keys, screen>>

\* line 150: if ticker in spike_alerts
Cs150(c) ==
    /\ frames[c].pc = "line150"
    /\ frames' = SetFrame(c, [frames[c] EXCEPT !.pc =
                     IF frames[c].ticker \in DOMAIN spike_alerts
                     THEN "line151" ELSE "done"])
    /\ UNCHANGED <<now, price_history, spike_alerts, call, ret, session_keys, screen>>

\* line 151: spike_alerts[ticker] = False
Cs151(c) ==
    /\ frames[c].pc = "line151"
    /\ spike_alerts' = DictSet(spike_alerts, frames[c].ticker, FALSE)
    /\ frames' = SetFrame(c, [frames[c] EXCEPT !.pc = "done"])
    /\ UNCHANGED <<now, price_history, call, ret, session_keys, screen>>

\* line 472: a script run reaches the sidebar and calls init_price_history
CaEnter(c) ==
    /\ CanCall(c)
    /\ frames' = SetFrame(c, [pc |-> "line114", calls |-> frames[c].calls + 1,
                              op |-> "clear_all_spikes", it_size |-> 0,
                              visited |-> {}, count |-> 0, detached |-> FALSE,
                              it_dict |-> EmptyDict, error |-> "none"])
    /\ UNCHANGED <<now, price_history, spike_alerts, call, ret, session_keys, screen>>

\* line 473: spike_alerts.values() is read and its iterator made, which notes the
\* size of the dict
Ca473Iter(c) ==
    /\ frames[c].pc = "line473"
    /\ frames' = SetFrame(c, [frames[c] EXCEPT
                     !.pc = "line473_next",
                     !.it_size = Cardinality(DOMAIN spike_alerts)])
    /\ UNCHANGED <<now, price_history, spike_alerts, call, ret, session_keys, screen>>

\* the dict the iterator of caller c walks over
iterated(c) == IF frames[c].detached THEN frames[c].it_dict ELSE spike_alerts

\* one step of the iterator on dict d: RuntimeError ("dictionary changed size
\* during iteration") when a key was stored since line 473 began, the end of the
\* sum when every key is visited, else the next value is counted if it is true
\* (the callers share one ticker, so the dict has at most one key)
iter_next(f, d) ==
    IF Cardinality(DOMAIN d) # f.it_size
    THEN [f EXCEPT !.pc = "done", !.error = "RuntimeError"]
    ELSE IF DOMAIN d \ f.visited = {}
    THEN [f EXCEPT !.pc = "line474"]
    ELSE LET k == CHOOSE x \in DOMAIN d \ f.visited : TRUE
         IN  [f EXCEPT !.visited = @ \cup {k},
                       !.count = @ + (IF d[k] THEN 1 ELSE 0)]

\* line 473: sum(1 for v in ... if v), one value at a time
Ca473Next(c) ==
    /\ frames[c].pc = "line473_next"
    /\ frames' = SetFrame(c, iter_next(frames[c], iterated(c)))
    /\ UNCHANGED <<now, price_history, spike_alerts, call, ret, session_keys, screen>>

\* lines 474-476: with an active alert the button "Clear All Spikes" is drawn; it
\* reports a click of the user or none. Without a click, and without an alert,
\* the run goes on.
Ca474(c) ==
    /\ frames[c].pc = "line474"
    /\ \E clicked \in BOOLEAN :
          frames' = SetFrame(c, [frames[c] EXCEPT !.pc =
                       IF frames[c].count > 0 /\ clicked THEN "line477" ELSE "done"])
    /\ UNCHANGED <<now, price_history, spike_alerts, call, ret, session_keys, screen>>

\* line 477: spike_alerts = {}
Ca477(c) ==
    /\ frames[c].pc = "line477"
    /\ spike_alerts' = EmptyDict
    /\ frames' = ReplaceAlerts(c, "done")
    /\ UNCHANGED <<now, price_history, call, ret, session_keys, screen>>

\* the wall clock while calls are in progress
ClockTick ==
    \E d \in TimeSteps :
        /\ now + d <= MaxTime
        /\ now' = now + d
        /\ UNCHANGED <<price_history, spike_alerts, call, ret, frames, session_keys, screen>>

NextConcurrent ==
    \/ ClockTick
    \/ \E c \in Callers :
          \/ Iph114(c) \/ Iph115(c) \/ Iph116(c) \/ Iph117(c)
          \/ RpEnter(c) \/ Rp121(c) \/ Rp122(c) \/ Rp123(c) \/ Rp124(c)
          \/ Rp126Build(c) \/ Rp126Store(c)
          \/ CpsEnter(c) \/ Cps130(c) \/ Cps132(c) \/ Cps134(c) \/ Cps135(c)
          \/ CsEnter(c) \/ Cs150(c) \/ Cs151(c)
          \/ CaEnter(c) \/ Ca473Iter(c) \/ Ca473Next(c) \/ Ca474(c) \/ Ca477(c)
          \/ Return(c)

SpecConcurrent == Init /\ [][NextConcurrent]_vars

\* the tracker after the call of frame f ran alone on tracker state st, with the
\* clock value the call read (a check_price_spike that returned at line 131 read
\* none and changed nothing)
RunAlone(st, f) ==
    IF f.op = "record_price"
    THEN [ph |-> record_price(st.ph, f.ticker, f.price, f.t_now), alerts |-> st.alerts]
    ELSE IF f.op = "check_price_spike"
    THEN (IF f.t_now = None THEN st
          ELSE [ph |-> st.ph,
                alerts |-> check_price_spike(st.ph, st.alerts, f.ticker, f.price,
                              DEFAULT_THRESHOLD_CENTS, DEFAULT_WINDOW_SECONDS,
                              f.t_now).spike_alerts])
    ELSE IF f.op = "clear_spike"
    THEN [ph |-> st.ph, alerts |-> clear_spike(st.alerts, f.ticker)]
    ELSE [ph |-> st.ph,
          alerts |-> IF active_spikes(st.alerts) > 0 THEN EmptyDict ELSE st.alerts]

\* C13 (atomicity under concurrent callers): when the first calls of the two
\* callers, each a record_price or a check_price_spike, have both run to their
\* end on the new tracker, the tracker is in the state some serial order of the
\* two calls leaves, so no appended sample and no spike detection is lost.
C13_SerialEquivalent ==
    (\A c \in Callers : /\ frames[c].pc = "done"
                        /\ frames[c].calls = 1
                        /\ frames[c].op \in {"record_price", "check_price_spike"})
        => \E a \in Callers, b \in Callers :
              /\ a # b
              /\ [ph |-> price_history, alerts |-> spike_alerts]
                   = RunAlone(RunAlone([ph |-> EmptyDict, alerts |-> EmptyDict],
                                       frames[a]), frames[b])

(* ================== record_price alone, on a longer clock =============== *)
\* the wall clock advances between calls, past the retention window
Advance ==
    \E d \in TimeSteps :
        /\ now + d <= MaxClock
        /\ now' = now + d
        /\ call' = [op |-> "tick"]
        /\ ret' = [value |-> None]
        /\ UNCHANGED <<price_history, spike_alerts, frames, session_keys, screen>>

SpecRecord == Init /\ [][Advance \/ RecordPrice]_vars

(* ======================= properties of the tracker ====================== *)
\* the stored history of a ticker ("no history" is the empty sequence)
HistoryOf(ph, ticker) == IF ticker \in DOMAIN ph THEN ph[ticker] ELSE <<>>

\* indices of the samples at least window seconds old at time t_now
OldIndices(ph, ticker, t_now, window) ==
    {i \in 1..Len(HistoryOf(ph, ticker)) : HistoryOf(ph, ticker)[i][1] <= t_now - window}

\* the step just taken ran check_price_spike (alone, or as the second call of a poll)
Checked(c) == c.op \in {"check_price_spike", "poll"}
CheckThreshold(c) == IF c.op = "poll" THEN DEFAULT_THRESHOLD_CENTS ELSE c.threshold
CheckWindow(c) == IF c.op = "poll" THEN DEFAULT_WINDOW_SECONDS ELSE c.window

\* C1 (spike stickiness): a check that returns True for X leaves X's flag set,
\* is_spiked(X) reports the flag, and under record_price, check_price_spike,
\* is_spiked and clear_spike calls the flag of X stays set across every call
\* that is not clear_spike(X), whatever the later prices and the age of the
\* history.
C1_SpikeSticky ==
    [][\A x \in Tickers :
          /\ (call'.op = "check_price_spike" /\ call'.ticker = x /\ ret'.triggered)
                => is_spiked(spike_alerts', x)
          /\ (call'.op = "is_spiked" /\ call'.ticker = x /\ is_spiked(spike_alerts, x))
                => ret'.value = TRUE
          /\ (is_spiked(spike_alerts, x) /\ ~is_spiked(spike_alerts', x))
                => (call'.op = "clear_spike" /\ call'.ticker = x)]_vars

\* C1 witness: is_spiked(T1) answers True although the only sample left for T1
\* is a later, lower price (the baseline of the spike has aged out).
C1_Witness ==
    /\ call = [op |-> "is_spiked", ticker |-> "T1"]
    /\ ret.value = TRUE
    /\ "T1" \in DOMAIN price_history
    /\ price_history["T1"] = <<<<120, 60>>>>

\* C2 (insufficient history is never a positive): when the ticker has no sample
\* with timestamp <= now - window (never recorded included), check_price_spike
\* returns (False, 0) and leaves the alert flags as they were.
C2_NoOldSampleNoSpike ==
    [][(Checked(call')
          /\ OldIndices(price_history', call'.ticker, now', CheckWindow(call')) = {})
        => /\ ret' = [triggered |-> FALSE, delta |-> 0]
           /\ spike_alerts' = spike_alerts]_vars

\* C2 witness: a check at a price 7 cents above the only, too recent, sample
\* came back (False, 0).
C2_Witness ==
    /\ call.op = "check_price_spike"
    /\ HistoryOf(price_history, call.ticker) # <<>>
    /\ OldIndices(price_history, call.ticker, now, call.window) = {}
    /\ call.price - HistoryOf(price_history, call.ticker)[1][2] >= call.threshold
    /\ ret = [triggered |-> FALSE, delta |-> 0]

\* C3 (baseline is the earliest old sample): when some sample is at least window
\* seconds old, delta = current price - price of the earliest-timestamp old
\* sample, triggered = (delta >= threshold), and the flag is written (to True)
\* exactly when triggered.
C3_EarliestBaseline ==
    [][(Checked(call')
          /\ OldIndices(price_history', call'.ticker, now', CheckWindow(call')) # {})
        => LET h == HistoryOf(price_history', call'.ticker)
               olds == OldIndices(price_history', call'.ticker, now', CheckWindow(call'))
               first == CHOOSE i \in olds : \A j \in olds : i <= j
           IN  /\ \A j \in olds : h[first][1] <= h[j][1]
               /\ ret'.delta = call'.price - h[first][2]
               /\ ret'.triggered = (ret'.delta >= CheckThreshold(call'))
               /\ ret'.triggered => spike_alerts' = DictSet(spike_alerts, call'.ticker, TRUE)
               /\ ~ret'.triggered => spike_alerts' = spike_alerts]_vars

\* C3 witness: samples (0, 60) and (31, 67), checked at second 31 with price 67,
\* threshold 5 and window 30, give (True, 7) and the alert is set.
C3_Witness ==
    /\ now = 31
    /\ call = [op |-> "check_price_spike", ticker |-> "T1", price |-> 67,
               threshold |-> 5, window |-> 30]
    /\ HistoryOf(price_history, "T1") = <<<<0, 60>>, <<31, 67>>>>
    /\ ret = [triggered |-> TRUE, delta |-> 7]
    /\ is_spiked(spike_alerts, "T1")

\* C11 (retention): after any sequence of record_price calls on a non-decreasing
\* clock, every stored sample of a ticker is at most 120 seconds older than the
\* ticker's most recently inserted sample, which is the last one of the list and
\* is always there.
C11_Retention ==
    /\ \A t \in DOMAIN price_history :
          LET h == price_history[t]
          IN  /\ h # <<>>
              /\ \A i \in 1..Len(h) :
                    /\ h[i][1] <= h[Len(h)][1]
                    /\ h[Len(h)][1] - h[i][1] <= 120
    /\ call.op = "record_price"
          => LET h == HistoryOf(price_history, call.ticker)
             IN  h # <<>> /\ h[Len(h)] = <<now, call.price>>

\* C11 witness: an insert at second 124 kept the sample of second 31 (93 s older);
\* a sample of second 0 would have been purged by it.
C11_Witness ==
    /\ now = 124
    /\ call = [op |-> "record_price", ticker |-> "T1", price |-> 67]
    /\ HistoryOf(price_history, "T1") = <<<<31, 60>>, <<124, 67>>>>

\* C10 as stated: a set flag is reset only by clear_spike for that same ticker.
C10_OnlyClearSpikeResets ==
    [][\A x \in Tickers :
          (is_spiked(spike_alerts, x) /\ ~is_spiked(spike_alerts', x))
            => (call'.op = "clear_spike" /\ call'.ticker = x)]_vars

\* C10 amended: a set flag is reset only by clear_spike for that same ticker or
\* by the sidebar's Clear All Spikes, which resets every ticker at once; polling,
\* recording, aging out and clearing another ticker never reset it.
C10_OnlyExplicitClearResets ==
    [][\A x \in Tickers :
          (is_spiked(spike_alerts, x) /\ ~is_spiked(spike_alerts', x))
            => \/ (call'.op = "clear_spike" /\ call'.ticker = x)
               \/ call'.op = "clear_all_spikes"]_vars

\* C10 witness: T2 has just been cleared and T1, spiked as well, is still set.
C10_Witness ==
    /\ call = [op |-> "clear_spike", ticker |-> "T2"]
    /\ "T2" \in DOMAIN spike_alerts
    /\ ~spike_alerts["T2"]
    /\ is_spiked(spike_alerts, "T1")

\* C15 as stated: a non-null bid of calculate_recommended_bid is a price in 1..99
\* cents and does not exceed the ask it was computed from.
C15_BidValidPrice ==
    (call.op = "calculate_recommended_bid" /\ ret.value[1] # None)
        => /\ ret.value[1] \in 1..99
           /\ ret.value[1] <= call.no_ask

\* C16 as stated: in post_q1 with q1_total below 55, ASK ACCEPTABLE is advised
\* only for an ask within the ceiling of get_price_tolerance(q1_total), and a
\* non-null bid is within that ceiling.
C16_BidWithinTolerance ==
    (/\ call.op = "calculate_recommended_bid"
     /\ call.game_state = "post_q1"
     /\ ~call.is_spiked
     /\ call.q1_total # None
     /\ call.q1_total < 55)
        => LET ceiling == get_price_tolerance(call.q1_total)[1]
           IN  /\ ret.value[2] = "ASK ACCEPTABLE" => call.no_ask <= ceiling
               /\ ret.value[1] # None => ret.value[1] <= ceiling

(* ===================== properties of the poll cycle ===================== *)
\* C14 as stated: after a market has been polled in a script run, in whatever
\* section, a ticker whose flag is set has the recommendation (None, DO NOT BID)
\* and no bid button and no lift-ask button.
C14_DoNotBidInEverySection ==
    (call.op = "poll_cycle" /\ is_spiked(spike_alerts, call.ticker))
        => ret.rec = <<None, "DO NOT BID">> /\ ret.buttons = {}

\* C14 (kill switch end to end), amended: after a market has been polled in a
\* script run (record_price, check_price_spike, then the display), a ticker whose
\* flag is set, by an earlier run or by the check of this run, has no bid button
\* and no lift-ask button; the recommendation shown for it is (None, DO NOT BID)
\* in the non-watchlist section, and in the two watchlist sections the market is
\* skipped: no recommendation is rendered, only the skip box with its clear
\* button. The sample of this run is in the history and the verdict of the check
\* is the one computed on that history.
C14_KillSwitch ==
    call.op = "poll_cycle"
        => LET t == call.ticker
               h == HistoryOf(price_history, t)
               sec == section_of(Markets[t], call.price, PrimaryWatchlist)
           IN  /\ h # <<>> /\ h[Len(h)] = <<now, call.price>>
               /\ ret.triggered
                    = check_price_spike(price_history, spike_alerts, t, call.price,
                                        DEFAULT_THRESHOLD_CENTS, DEFAULT_WINDOW_SECONDS,
                                        now).triggered
               /\ ret.triggered => is_spiked(spike_alerts, t)
               /\ is_spiked(spike_alerts, t)
                    => /\ ret.buttons = {}
                       /\ IF sec = "non_watchlist"
                          THEN ret.rec = <<None, "DO NOT BID">> /\ ~ret.clear_button
                          ELSE ret.rec = NoRecommendation /\ ret.clear_button
               /\ ~is_spiked(spike_alerts, t)
                    => /\ ~ret.clear_button
                       /\ ret.rec
                            = render_bid_recommendation(call.price, call.live_data, t,
                                  spike_alerts, call.show_trading).rec

\* C14 witness: with trading switched on, a poll of the watchlist market T1
\* detected a spike in this very run and drew the skip box with its clear button,
\* no recommendation and no order button.
C14_Witness ==
    /\ call.op = "poll_cycle"
    /\ call.ticker = "T1"
    /\ call.show_trading
    /\ ret.triggered
    /\ ret.rec = NoRecommendation
    /\ ret.clear_button
    /\ ret.buttons = {}

\* C17 as stated: after the spike of a ticker has been cleared, a following poll
\* of that ticker at a price not higher than the price at the time of the clear
\* does not set its flag again.
C17_ClearEffective ==
    [][(/\ call.op = "click_clear_spike"
        /\ call'.op = "poll_cycle"
        /\ call'.ticker = call.ticker
        /\ call'.price <= call.price)
          => ~is_spiked(spike_alerts', call.ticker)]_vars

====
